---- MODULE Spec2Model ----
(***************************************************************************)
(* go-flakeid: the IDGenerator of src/main.go.                             *)
(*                                                                         *)
(* One generator instance shared by several goroutines that call Generate, *)
(* a pluggable TimeProvider (a mock clock that may be moved forwards and   *)
(* backwards), and the pure packing / parsing of the 64-bit identifier.    *)
(* 64-bit unsigned values are bit vectors [0..63 -> {0,1}] so that shifts, *)
(* truncation and two's-complement conversion behave as in Go.             *)
(***************************************************************************)
EXTENDS Integers, Sequences, FiniteSets, TLC

\* ------------------------------------------------------------------ bounds
MaxTime == 2
MaxCalls == 3
NumThreads == 2
MaxBatch == 2

\* ------------------------------------------------------- program constants
WordBits == 64
Uint8Mod == 256
Uint16Bits == 16

Threads == 1..NumThreads
None == 0

\* --------------------------------------------------------- uint64 algebra
BitIdx == 0..(WordBits - 1)

\* uint64(n) for a signed integer n of the model (|n| < 2^31): two's
\* complement conversion, sign-extended above bit 30
ToU64(n) ==
  [i \in BitIdx |->
     IF n >= 0
       THEN (IF i <= 30 THEN (n \div (2^i)) % 2 ELSE 0)
       ELSE (IF i <= 30 THEN 1 - ((((-n) - 1) \div (2^i)) % 2) ELSE 1)]

Zero == ToU64(0)

\* x << s ; a shift count >= 64 yields 0
Shl(x, s) == [i \in BitIdx |-> IF i >= s THEN x[i - s] ELSE 0]

\* x >> s
Shr(x, s) == [i \in BitIdx |-> IF i + s < WordBits THEN x[i + s] ELSE 0]

Or(x, y) == [i \in BitIdx |-> IF x[i] = 1 \/ y[i] = 1 THEN 1 ELSE 0]

And(x, y) == [i \in BitIdx |-> IF x[i] = 1 /\ y[i] = 1 THEN 1 ELSE 0]

\* x - 1 modulo 2^64: every bit up to and including the lowest set bit flips
Dec(x) ==
  [i \in BitIdx |->
     IF \A j \in 0..(i - 1) : x[j] = 0 THEN 1 - x[i] ELSE x[i]]

RECURSIVE AddFrom(_, _, _, _)
\* the sum bits of x and y from bit i upwards, given the carry c into bit i
AddFrom(x, y, i, c) ==
  IF i = WordBits THEN <<>>
  ELSE LET s == x[i] + y[i] + c
       IN <<s % 2>> \o AddFrom(x, y, i + 1, s \div 2)

\* x + y modulo 2^64
Add(x, y) ==
  LET r == AddFrom(x, y, 0, 0)
  IN [i \in BitIdx |-> r[i + 1]]

\* unsigned comparison x < y
Less(x, y) ==
  \E i \in BitIdx : x[i] < y[i] /\ \A j \in BitIdx : j > i => x[j] = y[j]

RECURSIVE LowBits(_, _)
\* the value of the low w bits of x, as a number (w <= 16 in every use)
LowBits(x, w) ==
  IF w = 0 THEN 0 ELSE x[w - 1] * (2^(w - 1)) + LowBits(x, w - 1)

\* uint16(x), uint8(x)
U16(x) == LowBits(x, Uint16Bits)
U8(x) == LowBits(x, 8)

\* faulty variant: the decrement is forgotten
MaskNoDec(w) == Shl(ToU64(1), w)

\* uint64(1<<w) - 1
Mask(w) == Dec(Shl(ToU64(1), w))

\* uint8 addition
AddU8(a, b) == (a + b) % Uint8Mod

\* ------------------------------------------------------------ configuration
Layout(ts, et, dc, m, sq) ==
  [TimestampBits |-> ts, EntityTypeBits |-> et, DatacenterBits |-> dc,
   MachineBits |-> m, SequenceBits |-> sq]

DefaultBitLayout == Layout(41, 5, 2, 6, 10)

\* a layout with a one-bit timestamp and a one-bit sequence
NarrowLayout == Layout(1, 1, 1, 60, 1)

BitLayoutValidate(bl) ==
  AddU8(AddU8(AddU8(AddU8(bl.TimestampBits, bl.EntityTypeBits),
                    bl.DatacenterBits), bl.MachineBits), bl.SequenceBits) = 64

\* faulty variant: prefixes are not compared
PrefixesUnchecked(c) == TRUE

\* the check for duplicate prefixes: no two entity types have one prefix
PrefixesDistinct(c) ==
  \A e1, e2 \in c.EntityTypes : c.Prefix[e1] = c.Prefix[e2] => e1 = e2

ConfigValidate(c) ==
  /\ BitLayoutValidate(c.BitLayout)
  /\ ~Less(Mask(c.BitLayout.DatacenterBits), ToU64(c.DatacenterID))
  /\ ~Less(Mask(c.BitLayout.MachineBits), ToU64(c.MachineID))
  /\ \A e \in c.EntityTypes :
       ~Less(Mask(c.BitLayout.EntityTypeBits), ToU64(e))
  /\ PrefixesDistinct(c)

\* a nil Encoder
NoEncoder == [name |-> "nil", alphabet |-> <<>>]

\* the prefixes of ExampleUsage: track, artist, playlist, user
ExamplePrefix == <<<<"t">>, <<"a">>, <<"p">>, <<"u">>>>

\* a Config whose entity types ets carry the prefixes of ExampleUsage; no
\* Encoder is set (nil)
MkConfig(dc, m, ep, bl, ets) ==
  [DatacenterID |-> dc, MachineID |-> m, Epoch |-> ep, BitLayout |-> bl,
   EntityTypes |-> ets,
   Prefix |-> [e \in ets |-> ExamplePrefix[e + 1]],
   Encoder |-> NoEncoder]

\* the configurations handed to NewGenerator
Configs ==
  { MkConfig(1, 5, 0, NarrowLayout, {0, 1}),
    MkConfig(1, 5, 1, DefaultBitLayout, {0, 1}) }

\* entity types passed to Generate
EntityArgs == 0..2

VARIABLES
  config,     \* g.config
  prefixMap,  \* g.prefixToEntity
  sequence,   \* g.sequence (uint16)
  lastTime,   \* g.lastTime (int64)
  mu,         \* g.mu: the goroutine holding the lock, or None
  clock,      \* what TimeProvider.UnixMilli() returns now
  pc,         \* each goroutine's position in Generate
  arg,        \* each goroutine's entityType argument
  seen,       \* history: how many calls had returned when t's call began
  ret,        \* the value returned by the call that returned last
  issued,     \* history: the successful calls, in commit order
  ncalls,     \* number of calls that went on to take the lock
  batch,      \* each goroutine's GenerateBatch call: count, entity type, ids
  bret,       \* the value returned by the GenerateBatch call that returned last
  peer,       \* a second IDGenerator instance, with one caller
  call,       \* the operation applied last (not Generate), with its arguments
  result      \* what that operation returned

vars == <<config, prefixMap, sequence, lastTime, mu, clock, pc, arg, seen,
          ret, issued, ncalls, batch, bret, peer, call, result>>

\* ------------------------------------------- precomputed values (NewGenerator)
maxSequence == Mask(config.BitLayout.SequenceBits)
maxEntityType == Mask(config.BitLayout.EntityTypeBits)
machineShift == config.BitLayout.SequenceBits

\* faulty variant: the width of the machine field is left out
datacenterShiftNoMachine == config.BitLayout.SequenceBits

datacenterShift == AddU8(config.BitLayout.MachineBits, config.BitLayout.SequenceBits)

entityShift == AddU8(config.BitLayout.DatacenterBits, datacenterShift)
timestampShift == AddU8(config.BitLayout.EntityTypeBits, entityShift)

NoErr == "nil"
Pending == "pending"
ErrNotConfigured == "entity type not configured"
ErrExceedsMaximum == "entity type exceeds maximum"
ErrClockBackwards == "clock moved backwards"

ErrCountPositive == "count must be positive"
ErrBatchSize == "batch size exceeds maximum"
ErrBatchItem == "failed to generate ID"

\* what a call returns: (id, nil) or (0, err)
Result(id, err) == [id |-> id, err |-> err]

\* what GenerateBatch(entityType, count) returns: (ids, nil) or (nil, err);
\* index is the i of "failed to generate ID i", cause the wrapped error
BatchResult(count, ids, err, index, cause) ==
  [count |-> count, ids |-> ids, err |-> err, index |-> index, cause |-> cause]

\* the locals of a GenerateBatch call in progress; count 0: no such call
BatchFrame(count, entityType, ids, start) ==
  [count |-> count, entityType |-> entityType, ids |-> ids, start |-> start]

NoBatch == BatchFrame(0, 0, <<>>, 0)

\* no pure operation applied yet
NoCall == [op |-> "none"]

\* the reverse mapping NewGenerator builds from the entity types of c
PrefixMapOf(c) ==
  [p \in {c.Prefix[e] : e \in c.EntityTypes} |->
     CHOOSE e \in c.EntityTypes : c.Prefix[e] = p]

\* NewGenerator(c): (generator, nil), or (nil, err) when c.Validate() fails
ErrInvalidConfig == "invalid config"
NewGenerator(c) ==
  IF ConfigValidate(c)
    THEN [generator |-> c, err |-> NoErr]
    ELSE [generator |-> None, err |-> ErrInvalidConfig]

Init ==
  /\ config \in {NewGenerator(c).generator :
                  c \in {k \in Configs : NewGenerator(k).err = NoErr}}
  /\ prefixMap = PrefixMapOf(config)
  /\ sequence = 0
  /\ lastTime = 0
  /\ mu = None
  /\ clock = 0
  /\ pc = [t \in Threads |-> "idle"]
  /\ arg = [t \in Threads |-> 0]
  /\ seen = [t \in Threads |-> 0]
  /\ ret = Result(Zero, Pending)
  /\ issued = <<>>
  /\ ncalls = 0
  /\ batch = [t \in Threads |-> NoBatch]
  /\ bret = BatchResult(0, <<>>, Pending, 0, NoErr)
  /\ peer = None
  /\ call = NoCall
  /\ result = None

\* ------------------------------------------------------------------ Generate
\* the identifier built from now, the entity type and the sequence
BuildID(now, entityType, seq) ==
  LET timestamp == ToU64(now - config.Epoch)
  IN Or(Shl(timestamp, timestampShift),
        Or(Shl(ToU64(entityType), entityShift),
           Or(Shl(ToU64(config.DatacenterID), datacenterShift),
              Or(Shl(ToU64(config.MachineID), machineShift),
                 ToU64(seq)))))

\* faulty variant: the clock reading is not compared with lastTime
ClockMovedBackwardsNever(now) == FALSE

\* faulty variant: a regression of one millisecond goes unnoticed
ClockMovedBackwardsLax(now) == now < lastTime - 1

\* now < g.lastTime
ClockMovedBackwards(now) == now < lastTime

\* faulty variant: the sequence advances by two
NextSequenceSkip(s) == U16(And(ToU64((s + 2) % (2^Uint16Bits)), maxSequence))

\* (g.sequence + 1) & uint16(g.maxSequence)
NextSequence(s) == U16(And(ToU64((s + 1) % (2^Uint16Bits)), maxSequence))

\* faulty variant: the wrapped sequence is used without waiting
MustWaitNever(s) == FALSE

\* g.sequence == 0 after the increment: the millisecond is exhausted
MustWait(s) == s = 0

\* faulty variant: the wait loop ends while the clock still reads lastTime
StillWaitingStrict(now) == now < lastTime

\* the wait loop's condition: now <= g.lastTime
StillWaiting(now) == now <= lastTime

\* faulty variant: a later millisecond goes on with the sequence as it is
FirstSequenceKept == sequence

\* g.sequence = 0 when now is not lastTime
FirstSequence == 0

\* faulty variant: the lock is not released on return
UnlockMissing(t) == t

\* the deferred g.mu.Unlock()
Unlock(t) == None

\* faulty variant: any entity type is let through to the lock
EntryErrorNone(e) == NoErr

\* the checks Generate makes before it takes the lock
EntryError(e) ==
  IF e \notin config.EntityTypes THEN ErrNotConfigured
  ELSE IF Less(maxEntityType, ToU64(e)) THEN ErrExceedsMaximum
  ELSE NoErr

\* GenerateBatch returns r to the caller of goroutine t
BatchReturn(t, r) ==
  /\ bret' = r
  /\ batch' = [batch EXCEPT ![t] = NoBatch]
  /\ pc' = [pc EXCEPT ![t] = "idle"]
  /\ arg' = [arg EXCEPT ![t] = 0]
  /\ seen' = [seen EXCEPT ![t] = 0]

\* faulty variant: the index reported is that of the next item
FailIndexNext(ids) == Len(ids) + 1

\* the i of the failing iteration: len(ids) identifiers were appended before
FailIndex(ids) == Len(ids)

\* the loop of GenerateBatch with ids collected so far: for i < count the
\* next Generate call is entered, otherwise (ids, nil) is returned; done is
\* the number of calls that have returned when the next one begins
BatchLoop(t, f, ids, done) ==
  IF Len(ids) < f.count
    THEN IF EntryError(f.entityType) # NoErr
      THEN BatchReturn(t, BatchResult(f.count, <<>>, ErrBatchItem,
                                      FailIndex(ids),
                                      EntryError(f.entityType)))
      ELSE /\ batch' = [batch EXCEPT ![t] = [f EXCEPT !.ids = ids]]
           /\ pc' = [pc EXCEPT ![t] = "lock"]
           /\ arg' = [arg EXCEPT ![t] = f.entityType]
           /\ seen' = [seen EXCEPT ![t] = done]
           /\ bret' = bret
    ELSE BatchReturn(t, BatchResult(f.count, ids, NoErr, 0, NoErr))

\* the call of goroutine t is over: it returns ret' to its caller, which is
\* the loop of GenerateBatch when t is inside a batch
Finish(t) ==
  IF batch[t].count = 0
    THEN /\ pc' = [pc EXCEPT ![t] = "idle"]
         /\ arg' = [arg EXCEPT ![t] = 0]
         /\ seen' = [seen EXCEPT ![t] = 0]
         /\ UNCHANGED <<batch, bret>>
    ELSE IF ret'.err # NoErr
      THEN BatchReturn(t, BatchResult(batch[t].count, <<>>, ErrBatchItem,
                                      FailIndex(batch[t].ids), ret'.err))
      ELSE BatchLoop(t, batch[t], Append(batch[t].ids, ret'.id),
                     Len(issued'))

\* g.lastTime = now, build the id, return it (the deferred unlock runs)
Commit(t, now, seq, waited) ==
  \E id \in {BuildID(now, arg[t], seq)} :
     /\ lastTime' = now
     /\ sequence' = seq
     /\ mu' = Unlock(t)
     /\ ret' = Result(id, NoErr)
     /\ issued' = Append(issued,
                         [id |-> id, now |-> now, seq |-> seq,
                          entityType |-> arg[t], waited |-> waited])
     /\ Finish(t)

\* entry of Generate: the entity-type checks made before the lock is taken
GenerateBegin(t, e) ==
  /\ pc[t] = "idle"
  /\ ncalls < MaxCalls
  /\ IF e \notin config.EntityTypes
       THEN /\ ret' = Result(Zero, ErrNotConfigured)
            /\ UNCHANGED <<pc, arg, seen, ncalls>>
       ELSE IF Less(maxEntityType, ToU64(e))
         THEN /\ ret' = Result(Zero, ErrExceedsMaximum)
              /\ UNCHANGED <<pc, arg, seen, ncalls>>
         ELSE /\ ret' = ret
              /\ ncalls' = ncalls + 1
              /\ pc' = [pc EXCEPT ![t] = "lock"]
              /\ arg' = [arg EXCEPT ![t] = e]
              /\ seen' = [seen EXCEPT ![t] = Len(issued)]
  /\ UNCHANGED <<config, prefixMap, sequence, lastTime, mu, clock, issued>>
  /\ UNCHANGED <<batch, bret, peer, call, result>>

\* faulty variant: a count of zero is let through
CountInvalidLax(n) == n < 0

\* count <= 0
CountInvalid(n) == n <= 0

\* entry of GenerateBatch: the checks on count, then the loop's first
\* iteration
GenerateBatchBegin(t, e, n) ==
  /\ pc[t] = "idle"
  /\ ncalls + n <= MaxCalls
  /\ IF CountInvalid(n)
       THEN BatchReturn(t, BatchResult(n, <<>>, ErrCountPositive, 0, NoErr))
       ELSE IF Less(maxSequence, ToU64(n))
         THEN BatchReturn(t, BatchResult(n, <<>>, ErrBatchSize, 0, NoErr))
         ELSE BatchLoop(t, BatchFrame(n, e, <<>>, Len(issued)), <<>>,
                        Len(issued))
  /\ ncalls' = IF pc'[t] = "lock" THEN ncalls + n ELSE ncalls
  /\ UNCHANGED <<config, prefixMap, sequence, lastTime, mu, clock, issued, ret>>
  /\ UNCHANGED <<peer, call, result>>

\* g.mu.Lock()
GenerateLock(t) ==
  /\ pc[t] = "lock"
  /\ mu = None
  /\ mu' = t
  /\ pc' = [pc EXCEPT ![t] = "locked"]
  /\ UNCHANGED <<config, prefixMap, sequence, lastTime, clock, arg, seen, ret,
                 issued, ncalls>>
  /\ UNCHANGED <<batch, bret, peer, call, result>>

\* the first clock reading and the transition on (lastTime, sequence)
GenerateTransition(t) ==
  /\ pc[t] = "locked"
  /\ LET now == clock IN
       IF ClockMovedBackwards(now)
         THEN /\ ret' = Result(Zero, ErrClockBackwards)
              /\ mu' = Unlock(t)
              /\ Finish(t)
              /\ UNCHANGED <<sequence, lastTime, issued>>
         ELSE IF now = lastTime
           THEN \E s \in {NextSequence(sequence)} :
                  IF MustWait(s)
                    THEN /\ sequence' = s
                         /\ pc' = [pc EXCEPT ![t] = "wait"]
                         /\ UNCHANGED <<lastTime, mu, ret, issued, arg, seen>>
                         /\ UNCHANGED <<batch, bret>>
                    ELSE Commit(t, now, s, FALSE)
           ELSE Commit(t, now, FirstSequence, FALSE)
  /\ UNCHANGED <<config, prefixMap, clock, ncalls, peer, call, result>>

\* one iteration of the wait loop: read the clock again
GenerateWait(t) ==
  /\ pc[t] = "wait"
  /\ LET now == clock IN
       IF StillWaiting(now)
         THEN UNCHANGED <<sequence, lastTime, mu, ret, issued, pc, arg, seen,
                          batch, bret>>
         ELSE Commit(t, now, sequence, TRUE)
  /\ UNCHANGED <<config, prefixMap, clock, ncalls, peer, call, result>>

\* --------------------------------------------------------------- the clock
ClockAdvance ==
  /\ clock < MaxTime
  /\ clock' = clock + 1
  /\ UNCHANGED <<config, prefixMap, sequence, lastTime, mu, pc, arg, seen,
                 ret, issued, ncalls, batch, bret, peer, call, result>>

ClockSetBack ==
  /\ \E c \in 0..(clock - 1) : clock' = c
  /\ UNCHANGED <<config, prefixMap, sequence, lastTime, mu, pc, arg, seen,
                 ret, issued, ncalls, batch, bret, peer, call, result>>

Next ==
  \/ \E t \in Threads, e \in EntityArgs : GenerateBegin(t, e)
  \/ \E t \in Threads : GenerateLock(t)
  \/ \E t \in Threads : GenerateTransition(t)
  \/ \E t \in Threads : GenerateWait(t)
  \/ ClockAdvance
  \/ ClockSetBack

Spec == Init /\ [][Next]_vars

\* Scheduling: a goroutine that holds the lock keeps running, sync.Mutex hands
\* the lock to a goroutine that keeps waiting for it (starvation mode), and
\* the wait loop polls the clock without pause, so a value the clock shows
\* again and again is eventually read.
Fairness ==
  \A t \in Threads :
    /\ SF_vars(GenerateLock(t))
    /\ WF_vars(GenerateTransition(t))
    /\ SF_vars(GenerateWait(t))

LiveSpec == Spec /\ Fairness

\* ------------------------------------------------------------- GenerateBatch
\* the counts passed to GenerateBatch
BatchCounts == (-1)..MaxBatch

\* goroutines call Generate and GenerateBatch on the one instance
BatchNext ==
  \/ \E t \in Threads, e \in EntityArgs, n \in BatchCounts :
       GenerateBatchBegin(t, e, n)
  \/ Next

BatchSpec == Init /\ [][BatchNext]_vars

\* --------------------------------------------------------------------- Parse
\* the fields Parse extracts, each by the shifts and masks of the code
ParseSequence(id) == U16(And(id, maxSequence))

ParseMachineID(id) ==
  U8(And(Shr(id, config.BitLayout.SequenceBits),
         Mask(config.BitLayout.MachineBits)))

ParseDatacenterID(id) ==
  U8(And(Shr(Shr(id, config.BitLayout.SequenceBits),
             config.BitLayout.MachineBits),
         Mask(config.BitLayout.DatacenterBits)))

ParseEntityType(id) ==
  U8(And(Shr(Shr(Shr(id, config.BitLayout.SequenceBits),
                 config.BitLayout.MachineBits),
             config.BitLayout.DatacenterBits),
         maxEntityType))

\* time.UnixMilli(int64(timestamp) + epoch), as the 64 bits of the int64
ParseTimestamp(id) ==
  Add(Shr(Shr(Shr(Shr(id, config.BitLayout.SequenceBits),
                  config.BitLayout.MachineBits),
              config.BitLayout.DatacenterBits),
          config.BitLayout.EntityTypeBits),
      ToU64(config.Epoch))

Parse(id) ==
  [Timestamp |-> ParseTimestamp(id),
   EntityType |-> ParseEntityType(id),
   DatacenterID |-> ParseDatacenterID(id),
   MachineID |-> ParseMachineID(id),
   Sequence |-> ParseSequence(id)]

\* the identifier packed again from the fields Parse returned: timestamp
\* minus epoch, entity type, datacenter, machine and sequence at their shifts
Repack(p) ==
  Or(Shl(Add(p.Timestamp, ToU64(-config.Epoch)), timestampShift),
     Or(Shl(ToU64(p.EntityType), entityShift),
        Or(Shl(ToU64(p.DatacenterID), datacenterShift),
           Or(Shl(ToU64(p.MachineID), machineShift),
              ToU64(p.Sequence)))))

\* ------------------------------------------------------------------ encoders
\* a string is the sequence of its characters

RECURSIVE IndexOf(_, _, _)
\* the first position >= i of character c in s, or 0: strings.IndexRune
IndexOf(s, c, i) ==
  IF i > Len(s) THEN 0 ELSE IF s[i] = c THEN i ELSE IndexOf(s, c, i + 1)

RECURSIVE DivStep(_, _, _, _)
\* long division of x by b from bit i downwards, r the remainder so far: the
\* quotient bits i .. 0, then the remainder
DivStep(x, b, i, r) ==
  IF i < 0 THEN <<r>>
  ELSE LET v == 2 * r + x[i]
       IN <<v \div b>> \o DivStep(x, b, i - 1, v % b)

RECURSIVE MulSmall(_, _, _)
\* x * b modulo 2^64, for the bits of b from bit k upwards
MulSmall(x, b, k) ==
  IF b = 0 THEN Zero
  ELSE IF b % 2 = 1 THEN Add(Shl(x, k), MulSmall(x, b \div 2, k + 1))
  ELSE MulSmall(x, b \div 2, k + 1)

DefaultAlphabet ==
  <<"0", "1", "2", "3", "4", "5", "6", "7", "8", "9", "A", "B", "C", "D",
    "E", "F", "G", "H", "I", "J", "K", "L", "M", "N", "O", "P", "Q", "R",
    "S", "T", "U", "V", "W", "X", "Y", "Z", "a", "b", "c", "d", "e", "f",
    "g", "h", "i", "j", "k", "l", "m", "n", "o", "p", "q", "r", "s", "t",
    "u", "v", "w", "x", "y", "z">>

ErrEmptyString == "empty string"
ErrInvalidCharacter == "invalid character"
ErrRange == "value out of range"
\* in place of a string: the call does not return
Diverges == <<"does not return">>

\* NewBase62Encoder(alphabet...): <<>> stands for no argument, or ""
NewBase62Encoder(alphabet) ==
  [name |-> "base62",
   alphabet |-> IF alphabet # <<>> THEN alphabet ELSE DefaultAlphabet]

HexEncoder ==
  [name |-> "hex",
   alphabet |-> <<"0", "1", "2", "3", "4", "5", "6", "7", "8", "9",
                  "a", "b", "c", "d", "e", "f">>]

RECURSIVE EncodeDigits(_, _)
\* the loop of Encode: prepend alphabet[num % base], num /= base, while num > 0
EncodeDigits(alphabet, num) ==
  IF num = Zero THEN <<>>
  ELSE LET d == DivStep(num, Len(alphabet), WordBits - 1, 0)
       IN EncodeDigits(alphabet, [i \in BitIdx |-> d[WordBits - i]])
            \o <<alphabet[d[WordBits + 1] + 1]>>

\* Base62Encoder.Encode; with a one-character alphabet num /= 1 never
\* reaches 0 and the loop does not end
Base62Encode(alphabet, num) ==
  IF num = Zero THEN <<alphabet[1]>>
  ELSE IF Len(alphabet) = 1 THEN Diverges
  ELSE EncodeDigits(alphabet, num)

RECURSIVE DecodeFrom(_, _, _, _)
\* the loop of Decode from character i on, result so far acc:
\* result = result*base + index (0*base + index is index)
DecodeFrom(alphabet, str, i, acc) ==
  IF i > Len(str) THEN Result(acc, NoErr)
  ELSE LET index == IndexOf(alphabet, str[i], 1) - 1
       IN IF index = -1 THEN Result(Zero, ErrInvalidCharacter)
          ELSE IF acc = Zero
            THEN DecodeFrom(alphabet, str, i + 1, ToU64(index))
            ELSE DecodeFrom(alphabet, str, i + 1,
                            Add(MulSmall(acc, Len(alphabet), 0),
                                ToU64(index)))

\* Base62Encoder.Decode
Base62Decode(alphabet, str) ==
  IF str = <<>> THEN Result(Zero, ErrEmptyString)
  ELSE DecodeFrom(alphabet, str, 1, Zero)

\* HexEncoder.Encode: fmt.Sprintf("%x", id)
HexEncode(id) ==
  IF id = Zero THEN <<"0">> ELSE EncodeDigits(HexEncoder.alphabet, id)

\* the value of a hexadecimal digit, upper or lower case, or -1
HexValue(c) ==
  IF IndexOf(HexEncoder.alphabet, c, 1) > 0
    THEN IndexOf(HexEncoder.alphabet, c, 1) - 1
    ELSE IF IndexOf(<<"A", "B", "C", "D", "E", "F">>, c, 1) > 0
      THEN IndexOf(<<"A", "B", "C", "D", "E", "F">>, c, 1) + 9
      ELSE -1

RECURSIVE ParseUintFrom(_, _, _)
\* the loop of strconv.ParseUint(s, 16, 64): a digit that no longer fits is a
\* range error
ParseUintFrom(str, i, acc) ==
  IF i > Len(str) THEN Result(acc, NoErr)
  ELSE IF HexValue(str[i]) = -1 THEN Result(Zero, ErrInvalidCharacter)
  ELSE IF \E j \in (WordBits - 4)..(WordBits - 1) : acc[j] = 1
    THEN Result(Dec(Zero), ErrRange)
  ELSE ParseUintFrom(str, i + 1,
                     Or(Shl(acc, 4), ToU64(HexValue(str[i]))))

\* HexEncoder.Decode
HexDecode(encoded) ==
  IF encoded = <<>> THEN Result(Zero, ErrInvalidCharacter)
  ELSE ParseUintFrom(encoded, 1, Zero)

\* Encoder.Encode and Encoder.Decode of encoder enc
EncoderEncode(enc, id) ==
  IF enc.name = "hex" THEN HexEncode(id) ELSE Base62Encode(enc.alphabet, id)

EncoderDecode(enc, encoded) ==
  IF enc.name = "hex" THEN HexDecode(encoded)
  ELSE Base62Decode(enc.alphabet, encoded)

\* ---------------------------------------------------------------- public ids
\* g.config.Encoder: NewGenerator installs NewBase62Encoder() when none is set
Encoder ==
  IF config.Encoder = NoEncoder
    THEN NewBase62Encoder(<<>>)
    ELSE config.Encoder

\* g.prefixToEntity, as the set of its keys and the lookup
Prefixes == DOMAIN prefixMap
prefixToEntity(prefix) == prefixMap[prefix]

ErrMissingUnderscore == "invalid public ID format: missing underscore"
ErrUnknownPrefix == "unknown entity prefix"
ErrDecode == "failed to decode ID"

\* what EncodePublic returns: (string, nil) or ("", err)
EncodePublic(id, entityType) ==
  IF entityType \notin config.EntityTypes
    THEN [str |-> <<>>, err |-> ErrNotConfigured]
    ELSE IF EncoderEncode(Encoder, id) = Diverges
      THEN [str |-> <<>>, err |-> Diverges]
      ELSE [str |-> config.Prefix[entityType] \o <<"_">>
                      \o EncoderEncode(Encoder, id),
            err |-> NoErr]

RECURSIVE LastIndexOf(_, _, _)
\* the last position <= i of character c in s, or 0
LastIndexOf(s, c, i) ==
  IF i = 0 THEN 0 ELSE IF s[i] = c THEN i ELSE LastIndexOf(s, c, i - 1)

\* faulty variant: the string is cut at its last separator
SplitAtLast(publicID) == LastIndexOf(publicID, "_", Len(publicID))

\* strings.SplitN(publicID, "_", 2): the position of the cut, 0 when there
\* is a single part
SplitAt(publicID) == IndexOf(publicID, "_", 1)

\* what DecodePublic returns: (id, entityType, nil) or (0, 0, err)
PublicResult(id, entityType, err) ==
  [id |-> id, entityType |-> entityType, err |-> err]

DecodePublic(publicID) ==
  LET k == SplitAt(publicID)
      prefix == SubSeq(publicID, 1, k - 1)
      encoded == SubSeq(publicID, k + 1, Len(publicID))
  IN IF k = 0 THEN PublicResult(Zero, 0, ErrMissingUnderscore)
     ELSE IF prefix \notin Prefixes
       THEN PublicResult(Zero, 0, ErrUnknownPrefix)
     ELSE IF EncoderDecode(Encoder, encoded).err # NoErr
       THEN PublicResult(Zero, 0, ErrDecode)
     ELSE PublicResult(EncoderDecode(Encoder, encoded).id,
                       prefixToEntity(prefix), NoErr)

\* ------------------------------------------------- the operations, one by one
\* the variables of the running generator, which a pure operation leaves alone
genVars == <<config, prefixMap, sequence, lastTime, mu, clock, pc, arg, seen,
             ret, issued, ncalls, batch, bret, peer>>

\* a layout whose widths sum to 320, which is 64 in uint8 arithmetic
WrapLayout == Layout(128, 64, 0, 64, 64)

\* the configurations of the generators the operations are applied to
PureConfigs ==
  { MkConfig(1, 5, 1, DefaultBitLayout, {0, 1}),
    MkConfig(1, 5, 0, NarrowLayout, {0, 1}),
    MkConfig(0, 5, 0, WrapLayout, {0, 1}),
    [MkConfig(1, 5, 1, DefaultBitLayout, {0, 1})
       EXCEPT !.Encoder = HexEncoder,
              !.Prefix = [e \in {0, 1} |->
                            IF e = 0 THEN <<>> ELSE <<"u", "s", "r">>]],
    [MkConfig(1, 5, 1, DefaultBitLayout, {0, 1})
       EXCEPT !.Prefix = [e \in {0, 1} |->
                            IF e = 0 THEN <<"t", "_", "x">> ELSE <<"t">>]],
    [MkConfig(1, 5, 1, DefaultBitLayout, {0, 1})
       EXCEPT !.Prefix = [e \in {0, 1} |-> <<"t">>]] }

PureInit ==
  /\ config \in {NewGenerator(c).generator :
                  c \in {k \in PureConfigs : NewGenerator(k).err = NoErr}}
  /\ prefixMap = PrefixMapOf(config)
  /\ sequence = 0
  /\ lastTime = 0
  /\ mu = None
  /\ clock = 0
  /\ pc = [t \in Threads |-> "idle"]
  /\ arg = [t \in Threads |-> 0]
  /\ seen = [t \in Threads |-> 0]
  /\ ret = Result(Zero, Pending)
  /\ issued = <<>>
  /\ ncalls = 0
  /\ batch = [t \in Threads |-> NoBatch]
  /\ bret = BatchResult(0, <<>>, Pending, 0, NoErr)
  /\ peer = None
  /\ call = NoCall
  /\ result = None

\* 64-bit inputs: 0, 2^64 - 1, and small values placed at several offsets
RawValues == {1, 3, 683}
RawShifts == {0, 1, 10, 16, 23, 40, 62}
RawIDs ==
  {Zero, Dec(Zero)} \cup {Shl(ToU64(v), k) : v \in RawValues, k \in RawShifts}

\* g.Parse(id)
ParseCall ==
  /\ call = NoCall
  /\ \E id \in RawIDs :
       /\ call' = [op |-> "Parse", id |-> id]
       /\ result' = Parse(id)
  /\ UNCHANGED genVars

\* field widths, each a uint8
Widths == {0, 1, 2, 31, 64, 128}
Layouts == {Layout(a, b, c, d, e) : a, b, c, d, e \in Widths}

ErrLayout == "bit layout must sum to 64"

\* bl.Validate()
ValidateCall ==
  /\ call = NoCall
  /\ \E bl \in Layouts :
       /\ call' = [op |-> "BitLayout.Validate", layout |-> bl]
       /\ result' = IF BitLayoutValidate(bl) THEN NoErr ELSE ErrLayout
  /\ UNCHANGED genVars

\* a layout with zero-width entity-type, datacenter and machine fields, and
\* one whose widths sum to 63
ZeroLayout == Layout(58, 0, 0, 0, 6)
ShortLayout == Layout(41, 5, 2, 6, 9)

\* the configurations handed to NewGenerator, each with the prefixes of
\* ExampleUsage and with one prefix for all its entity types
CandidateConfigs ==
  LET cs == {MkConfig(dc, m, 0, bl, ets) :
               dc \in {0, 1, 2, 4}, m \in {0, 1, 5, 64},
               bl \in {DefaultBitLayout, NarrowLayout, WrapLayout, ZeroLayout,
                       ShortLayout},
               ets \in {{}, {0}, {0, 1}, {2}, {0, 3}}}
  IN cs \cup {[c EXCEPT !.Prefix = [e \in c.EntityTypes |-> <<"t">>]] :
                c \in cs}

\* NewGenerator(c)
NewGeneratorCall ==
  /\ call = NoCall
  /\ \E c \in CandidateConfigs :
       /\ call' = [op |-> "NewGenerator", config |-> c]
       /\ result' = NewGenerator(c)
  /\ UNCHANGED genVars

\* the encoders the library provides: hex, base62 with the default alphabet,
\* with the ten digits, with an alphabet that repeats a character, and with a
\* one-character alphabet
Encoders ==
  { HexEncoder,
    NewBase62Encoder(<<>>),
    NewBase62Encoder(<<"0", "1", "2", "3", "4", "5", "6", "7", "8", "9">>),
    NewBase62Encoder(<<"0", "1", "2", "3", "4", "5", "6", "7", "8", "0">>),
    NewBase62Encoder(<<"a">>) }

\* enc.Decode(enc.Encode(x))
EncoderCall ==
  /\ call = NoCall
  /\ \E enc \in Encoders, x \in RawIDs :
       \E str \in {EncoderEncode(enc, x)} :
         /\ call' = [op |-> "Encode;Decode", encoder |-> enc, x |-> x]
         /\ result' = IF str = Diverges
                         THEN [encoded |-> str, id |-> Zero, err |-> Diverges]
                         ELSE [encoded |-> str,
                               id |-> EncoderDecode(enc, str).id,
                               err |-> EncoderDecode(enc, str).err]
  /\ UNCHANGED genVars

\* g.DecodePublic applied to what g.EncodePublic(id, entityType) returned, as
\* in ExampleUsage
PublicRoundTripCall ==
  /\ call = NoCall
  /\ \E id \in RawIDs, entityType \in config.EntityTypes :
       \E pub \in {EncodePublic(id, entityType)} :
         /\ pub.err = NoErr
         /\ call' = [op |-> "EncodePublic;DecodePublic", id |-> id,
                      entityType |-> entityType, publicID |-> pub.str]
         /\ result' = DecodePublic(pub.str)
  /\ UNCHANGED genVars

\* the strings handed to DecodePublic
PublicIDs ==
  { <<>>, <<"t">>, <<"t", "5">>, <<"_">>, <<"_", "5">>, <<"t", "_">>,
    <<"t", "_", "5">>, <<"a", "_", "5">>, <<"x", "_", "5">>,
    <<"u", "s", "r", "_", "f", "F">>, <<"t", "_", "x", "_", "5">>,
    <<"t", "_", "_", "5">>, <<"t", "_", "5", "_">>, <<"5", "_", "t">>,
    <<"t", "_", "x", "_", "f", "_", "1">>, <<"a", "_", "!">> }

\* g.DecodePublic(publicID)
DecodePublicCall ==
  /\ call = NoCall
  /\ \E publicID \in PublicIDs :
       /\ call' = [op |-> "DecodePublic", publicID |-> publicID]
       /\ result' = DecodePublic(publicID)
  /\ UNCHANGED genVars

PureNext ==
  \/ ParseCall
  \/ ValidateCall
  \/ NewGeneratorCall
  \/ EncoderCall
  \/ PublicRoundTripCall
  \/ DecodePublicCall

PureSpec == PureInit /\ [][PureNext]_vars

\* ------------------------------------------------------------ two instances
\* the runtime state of a generator instance
Instance(c, seq, last, ids) ==
  [config |-> c, sequence |-> seq, lastTime |-> last, issued |-> ids]

\* configurations of the machines of a deployment
PairConfigs ==
  {MkConfig(dc, 5, 1, DefaultBitLayout, {0, 1}) : dc \in {1, 2}}
    \cup {MkConfig(1, m, 0, NarrowLayout, {0, 1}) : m \in {5, 6}}
    \cup {MkConfig(0, m, 0, WrapLayout, {0, 1}) : m \in {5, 6}}

\* two generators built by NewGenerator from configurations with the same
\* layout and epoch and different (DatacenterID, MachineID); the variables
\* hold the instance being called, peer holds the other one
PairInit ==
  /\ config \in {NewGenerator(c).generator :
                  c \in {k \in PairConfigs : NewGenerator(k).err = NoErr}}
  /\ prefixMap = PrefixMapOf(config)
  /\ \E c \in {k \in PairConfigs : NewGenerator(k).err = NoErr} :
       /\ c.BitLayout = config.BitLayout
       /\ c.Epoch = config.Epoch
       /\ <<c.DatacenterID, c.MachineID>>
            # <<config.DatacenterID, config.MachineID>>
       /\ peer = Instance(NewGenerator(c).generator, 0, 0, <<>>)
  /\ sequence = 0
  /\ lastTime = 0
  /\ mu = None
  /\ clock = 0
  /\ pc = [t \in Threads |-> "idle"]
  /\ arg = [t \in Threads |-> 0]
  /\ seen = [t \in Threads |-> 0]
  /\ ret = Result(Zero, Pending)
  /\ issued = <<>>
  /\ ncalls = 0
  /\ batch = [t \in Threads |-> NoBatch]
  /\ bret = BatchResult(0, <<>>, Pending, 0, NoErr)
  /\ call = NoCall
  /\ result = None

\* the callers turn to the other instance: no call is in progress on the one
\* they leave, whose state is kept as it is
OtherInstance ==
  /\ \A t \in Threads : pc[t] = "idle"
  /\ mu = None
  /\ peer' = Instance(config, sequence, lastTime, issued)
  /\ config' = peer.config
  /\ prefixMap' = PrefixMapOf(peer.config)
  /\ sequence' = peer.sequence
  /\ lastTime' = peer.lastTime
  /\ issued' = peer.issued
  /\ UNCHANGED <<mu, clock, pc, arg, seen, ret, ncalls, batch, bret, call,
                 result>>

PairNext ==
  \/ OtherInstance
  \/ Next

PairSpec == PairInit /\ [][PairNext]_vars


\* --------------------------------------------------------------------- Stats
\* what Stats returns
GeneratorStats ==
  [DatacenterID |-> config.DatacenterID,
   MachineID |-> config.MachineID,
   Epoch |-> config.Epoch,
   LastGenerated |-> lastTime,
   CurrentSequence |-> sequence,
   BitLayout |-> config.BitLayout,
   EntityCount |-> Cardinality(config.EntityTypes),
   EncoderName |-> Encoder.name]

\* faulty variant: the state is read without waiting for the lock
UnlockedOrNot == TRUE

\* g.mu.Lock() returns at once: no goroutine holds the lock
Unlocked == mu = None

\* Stats called by goroutine t: lock, read the fields, unlock
Stats(t) ==
  /\ pc[t] = "idle"
  /\ ncalls < MaxCalls
  /\ Unlocked
  /\ ncalls' = ncalls + 1
  /\ call' = [op |-> "Stats"]
  /\ result' = GeneratorStats
  /\ UNCHANGED <<config, prefixMap, sequence, lastTime, mu, clock, pc, arg,
                 seen, ret, issued, batch, bret, peer>>

\* the configurations of the generator, NewConfig(0, 0) with the default
\* layout among them
StatsConfigs == Configs \cup {MkConfig(0, 0, 1, DefaultBitLayout, {0, 1})}

\* a generator built by NewGenerator while the clock reads any value: call
\* keeps the reading
StatsInit ==
  /\ config \in {NewGenerator(c).generator :
                  c \in {k \in StatsConfigs : NewGenerator(k).err = NoErr}}
  /\ prefixMap = PrefixMapOf(config)
  /\ sequence = 0
  /\ lastTime = 0
  /\ mu = None
  /\ clock \in 0..MaxTime
  /\ pc = [t \in Threads |-> "idle"]
  /\ arg = [t \in Threads |-> 0]
  /\ seen = [t \in Threads |-> 0]
  /\ ret = Result(Zero, Pending)
  /\ issued = <<>>
  /\ ncalls = 0
  /\ batch = [t \in Threads |-> NoBatch]
  /\ bret = BatchResult(0, <<>>, Pending, 0, NoErr)
  /\ peer = None
  /\ call = [op |-> "NewGenerator", now |-> clock]
  /\ result = None

\* goroutines call Generate and Stats on the one instance
StatsNext ==
  \/ \E t \in Threads : Stats(t)
  \/ Next

StatsSpec == StatsInit /\ [][StatsNext]_vars


\* ------------------------------------------------------------ GeneratePublic
\* what GeneratePublic(entityType) returns when its Generate call returned r:
\* ("", err), or what EncodePublic makes of the identifier
GeneratePublic(r, entityType) ==
  IF r.err # NoErr
    THEN [str |-> <<>>, err |-> r.err]
    ELSE EncodePublic(r.id, entityType)

\* Generate, called by GeneratePublic, on a generator with any of the
\* encoders and prefixes
PublicSpec == PureInit /\ [][Next]_vars


\* ------------------------------------------------------------- AddEntityType
\* the caller calls AddEntityType(entityType, name, prefix) on the Config it
\* passed to NewGenerator: g.config.EntityTypes is the same map, which gets
\* the entry, while g.prefixToEntity stays as NewGenerator built it
AddEntityType(entityType, prefix) ==
  /\ config' =
       [config EXCEPT
          !.EntityTypes = @ \cup {entityType},
          !.Prefix = [e \in config.EntityTypes \cup {entityType} |->
                        IF e = entityType THEN prefix ELSE config.Prefix[e]]]
  /\ UNCHANGED <<prefixMap, sequence, lastTime, mu, clock, pc, arg, seen, ret,
                 issued, ncalls, batch, bret, peer, call, result>>

\* goroutines call Generate while the caller goes on adding entity types
SharedNext ==
  \/ \E e \in EntityArgs, p \in {<<"t">>, <<"z">>} : AddEntityType(e, p)
  \/ Next

SharedSpec == Init /\ [][SharedNext]_vars

\* ------------------------------------------------------------------ claims
Issued == 1..Len(issued)

\* C1: no two identifiers returned by successful Generate calls on one
\* instance are equal.
C1_NoDuplicateIDs ==
  \A i, j \in Issued : i # j => issued[i].id # issued[j].id

\* C2: when a successful call A returned before a successful call B began,
\* idA < idB as unsigned 64-bit integers, whatever the entity types.
C2_SequentialMonotonic ==
  [][\A t \in Threads :
       (pc[t] # "idle" /\ pc'[t] = "idle" /\ Len(issued') > Len(issued))
         => \A i \in 1..seen[t] : Less(issued[i].id, issued'[Len(issued')].id)]_vars

\* C3: when call A commits (leaves the locked transition) before call B
\* commits, idA < idB.
C3_CommitOrderMonotonic ==
  \A i, j \in Issued : i < j => Less(issued[i].id, issued[j].id)

\* C4: a call whose clock reading is strictly less than the last committed
\* timestamp returns the clock-moved-backwards error and no identifier, and
\* leaves (lastTime, sequence) unchanged; nothing is issued for it.
C4_ClockRegressionRejected ==
  [][\A t \in Threads :
       (pc[t] = "locked" /\ pc'[t] # "locked" /\ clock < lastTime)
         => /\ ret' = Result(Zero, ErrClockBackwards)
            /\ lastTime' = lastTime
            /\ sequence' = sequence
            /\ issued' = issued]_vars

C4_Witness ==
  /\ ret.err = ErrClockBackwards
  /\ clock < lastTime

ExhaustedAt(T) ==
  /\ config.BitLayout.SequenceBits <= Uint16Bits
  /\ {issued[i].seq : i \in {j \in Issued : issued[j].now = T}}
       = 0..U16(maxSequence)

C7_EveryCallReturns ==
  ([]<>(clock > lastTime))
    => \A t \in Threads : (pc[t] # "idle") ~> (pc[t] = "idle")

C7_Witness ==
  \E i \in Issued :
    /\ issued[i].waited
    /\ i < Len(issued)
    /\ issued[i + 1].now = issued[i].now

\* the largest timestamp the layout can hold: 2^TimestampBits - 1
maxTimestamp == Mask(config.BitLayout.TimestampBits)

\* C8: a call whose timestamp now - epoch exceeds 2^TimestampBits - 1 fails
\* with a timestamp-overflow error: no identifier is returned for it.
C8_TimestampOverflowRejected ==
  \A i \in Issued :
    issued[i].now >= config.Epoch
      => ~Less(maxTimestamp, ToU64(issued[i].now - config.Epoch))

\* C9: a call whose clock reading is strictly before the epoch returns an
\* error and no identifier.
C9_EpochNotInFuture ==
  \A i \in Issued : issued[i].now >= config.Epoch

\* C10: Parse of an identifier returned by Generate(e) at clock reading now
\* gives EntityType e, the configured DatacenterID and MachineID, the
\* committed Sequence and Timestamp now.
C10_ParseRoundTrip ==
  \A i \in Issued :
    LET p == Parse(issued[i].id)
    IN /\ p.EntityType = issued[i].entityType
       /\ p.DatacenterID = config.DatacenterID
       /\ p.MachineID = config.MachineID
       /\ p.Sequence = issued[i].seq
       /\ p.Timestamp = ToU64(issued[i].now)

\* C11: Parse returns for every 64-bit input, and packing the fields it
\* returned (timestamp - epoch, entity type, datacenter, machine, sequence)
\* with the layout's shifts gives the input back exactly.
C11_ParseLossless ==
  call.op = "Parse" => Repack(result) = call.id

\* C12: BitLayout.Validate accepts a layout if and only if its five widths
\* (each 0..255) sum to exactly 64.
C12_ValidateIffSum64 ==
  call.op = "BitLayout.Validate"
    => (result = NoErr
          <=> call.layout.TimestampBits + call.layout.EntityTypeBits
                + call.layout.DatacenterBits + call.layout.MachineBits
                + call.layout.SequenceBits = 64)

\* the uint8 value v exceeds (1 << w) - 1
Exceeds(v, w) == w < 8 /\ v > 2^w - 1

\* C13: NewGenerator returns an error and no generator whenever DatacenterID,
\* MachineID or a registered entity type exceeds (1 << width) - 1 of its
\* field; so any non-zero value in a zero-width field is rejected.
C13_FieldOverflowRejected ==
  (/\ call.op = "NewGenerator"
   /\ \/ Exceeds(call.config.DatacenterID, call.config.BitLayout.DatacenterBits)
      \/ Exceeds(call.config.MachineID, call.config.BitLayout.MachineBits)
      \/ \E e \in call.config.EntityTypes :
           Exceeds(e, call.config.BitLayout.EntityTypeBits))
    => /\ result.err # NoErr
       /\ result.generator = None

C13_Witness ==
  /\ call.op = "NewGenerator"
  /\ BitLayoutValidate(call.config.BitLayout)
  /\ call.config.BitLayout.MachineBits = 0
  /\ call.config.MachineID = 1
  /\ call.config.DatacenterID = 0
  /\ call.config.EntityTypes = {}
  /\ result.err # NoErr
  /\ result.generator = None

\* C14: GenerateBatch(entityType, n) with n <= 0 returns an error and no
\* identifiers, and leaves lastTime, sequence and the issued identifiers
\* unchanged.
C14_BatchCountRejected ==
  [][(bret' # bret /\ bret'.count <= 0)
       => /\ bret'.err = ErrCountPositive
          /\ bret'.ids = <<>>
          /\ lastTime' = lastTime
          /\ sequence' = sequence
          /\ issued' = issued]_vars

C14_Witness ==
  /\ bret.err = ErrCountPositive
  /\ bret.count <= 0
  /\ lastTime > 0
  /\ Len(issued) > 0

\* ids are identifiers returned by Generate calls, in the order of the calls
InCallOrder(ids) ==
  \E f \in [1..Len(ids) -> Issued] :
    /\ \A k \in 1..Len(ids) : issued[f[k]].id = ids[k]
    /\ \A k \in 1..(Len(ids) - 1) : f[k] < f[k + 1]

\* C15: for every n > 0, GenerateBatch(entityType, n) returns exactly the n
\* identifiers of n sequential Generate calls, in call order, unless one of
\* those calls fails; n <= 0 is the only argument it rejects.
C15_BatchOfAnySize ==
  (bret.err # Pending /\ bret.count > 0)
    => \/ bret.err = ErrBatchItem
       \/ /\ bret.err = NoErr
          /\ Len(bret.ids) = bret.count
          /\ InCallOrder(bret.ids)

\* C16: when the i-th Generate call inside GenerateBatch fails, GenerateBatch
\* returns an error naming index i and no identifiers; the i identifiers
\* generated before stay issued and the generator keeps the state the last
\* successful call left, it is not rolled back.
C16_BatchNotAtomic ==
  [][/\ (bret' # bret /\ bret'.err = ErrBatchItem) => bret'.ids = <<>>
     /\ \A t \in Threads :
          (batch[t].count > 0 /\ batch'[t].count = 0
             /\ bret'.err = ErrBatchItem)
            => /\ bret'.index = Len(batch[t].ids)
               /\ bret'.ids = <<>>
               /\ issued' = issued
               /\ Len(issued) >= batch[t].start + Len(batch[t].ids)
               /\ \A k \in 1..Len(batch[t].ids) :
                    \E j \in Issued :
                      j > batch[t].start /\ issued[j].id = batch[t].ids[k]
               /\ lastTime' = lastTime
               /\ sequence' = sequence
               /\ Len(batch[t].ids) > 0
                    => /\ lastTime' = issued[Len(issued)].now
                       /\ sequence' = issued[Len(issued)].seq]_vars

C16_Witness ==
  /\ bret.err = ErrBatchItem
  /\ bret.index = 1
  /\ bret.cause = ErrClockBackwards
  /\ bret.ids = <<>>
  /\ Len(issued) > 0

\* C17: for every entity kind k registered in an accepted configuration,
\* whatever its prefix, and every 64-bit id, DecodePublic(EncodePublic(id, k))
\* returns (id, k) without error.
C17_PublicRoundTrip ==
  call.op = "EncodePublic;DecodePublic"
    => result = PublicResult(call.id, call.entityType, NoErr)

\* the positions of the separator in s
Separators(s) == {i \in 1..Len(s) : s[i] = "_"}

\* the first separator of s (s has one)
First(s) == CHOOSE i \in Separators(s) : \A j \in Separators(s) : i <= j

\* C18: DecodePublic returns an error and neither id nor kind when the string
\* has no '_', and when the text before the first '_' is not the prefix of a
\* registered kind; the string is split at the first separator only and the
\* whole remainder goes to the encoder.
C18_DecodePublicErrors ==
  call.op = "DecodePublic"
    => LET s == call.publicID
       IN IF Separators(s) = {}
            THEN result = PublicResult(Zero, 0, ErrMissingUnderscore)
            ELSE IF \A e \in config.EntityTypes :
                      config.Prefix[e] # SubSeq(s, 1, First(s) - 1)
              THEN result = PublicResult(Zero, 0, ErrUnknownPrefix)
              ELSE LET d == EncoderDecode(Encoder,
                                          SubSeq(s, First(s) + 1, Len(s)))
                   IN IF d.err = NoErr
                        THEN /\ result.err = NoErr
                             /\ result.id = d.id
                             /\ config.Prefix[result.entityType]
                                  = SubSeq(s, 1, First(s) - 1)
                        ELSE result = PublicResult(Zero, 0, ErrDecode)

C18_Witness ==
  /\ call.op = "DecodePublic"
  /\ Cardinality(Separators(call.publicID)) = 2
  /\ result = PublicResult(Zero, 0, ErrUnknownPrefix)

\* C20: every encoder the library provides, HexEncoder and NewBase62Encoder
\* with the default or any caller-supplied alphabet, satisfies
\* Decode(Encode(x)) = x for every 64-bit x, and Encode is injective.
C20_EncoderRoundTrip ==
  call.op = "Encode;Decode"
    => /\ result.err = NoErr
       /\ result.id = call.x
       /\ \A y \in RawIDs :
            y # call.x => EncoderEncode(call.encoder, y) # result.encoded

\* C19: two generator instances with the same layout and epoch and different
\* (DatacenterID, MachineID) never return equal identifiers, whatever the
\* clock readings and entity types.
C19_InstancesDisjoint ==
  \A i \in Issued, j \in 1..Len(peer.issued) :
    issued[i].id # peer.issued[j].id

\* the word made of the fields, given least significant first as
\* <<value, width>>, each shifted left by the sum (a uint8, as the shifts of
\* the generator are) of the widths before it
RECURSIVE PackFrom(_, _, _)
PackFrom(fields, k, shift) ==
  IF k > Len(fields) THEN Zero
  ELSE Or(Shl(ToU64(fields[k][1]), shift),
          PackFrom(fields, k + 1, (shift + fields[k][2]) % Uint8Mod))

\* C21 as stated: in every identifier returned by Generate the fields are,
\* from most to least significant bit, timestamp since epoch, datacenter,
\* entity type, machine, sequence, each shifted left by the sum of the widths
\* of the fields below it.
C21_DatacenterAboveEntityType ==
  \A i \in Issued :
    issued[i].id =
      PackFrom(<< <<issued[i].seq, config.BitLayout.SequenceBits>>,
                  <<config.MachineID, config.BitLayout.MachineBits>>,
                  <<issued[i].entityType, config.BitLayout.EntityTypeBits>>,
                  <<config.DatacenterID, config.BitLayout.DatacenterBits>>,
                  <<issued[i].now - config.Epoch,
                    config.BitLayout.TimestampBits>> >>, 1, 0)

\* C21: in every identifier returned by Generate the fields are, from most to
\* least significant bit, timestamp since epoch, entity type, datacenter,
\* machine, sequence, each shifted left by the sum of the widths of the
\* fields below it; bits shifted beyond bit 63 are lost.
C21_EntityTypeAboveDatacenter ==
  \A i \in Issued :
    issued[i].id =
      PackFrom(<< <<issued[i].seq, config.BitLayout.SequenceBits>>,
                  <<config.MachineID, config.BitLayout.MachineBits>>,
                  <<config.DatacenterID, config.BitLayout.DatacenterBits>>,
                  <<issued[i].entityType, config.BitLayout.EntityTypeBits>>,
                  <<issued[i].now - config.Epoch,
                    config.BitLayout.TimestampBits>> >>, 1, 0)

\* an identifier of entity type 1 from datacenter 2 with a sequence above 0
\* in the default layout: every field below the timestamp is set
C21_Witness ==
  \E i \in Issued :
    /\ config.BitLayout = DefaultBitLayout
    /\ config.DatacenterID = 2
    /\ issued[i].entityType = 1
    /\ issued[i].seq > 0
    /\ issued[i].now > config.Epoch

\* the goroutines inside the locked part of Generate
InTransition == {t \in Threads : pc[t] \in {"locked", "wait"}}

\* C22: lastTime and sequence are read and written only while the lock is
\* held: at most one Generate call is inside the transition, it is the
\* holder of the lock, only it changes (lastTime, sequence), and Stats reads
\* the two fields while no Generate call is inside the transition, so never
\* between the write of sequence and the write of lastTime.
C22_StateUnderLock ==
  [][/\ Cardinality(InTransition) <= 1
     /\ \A t \in InTransition : mu = t
     /\ <<lastTime', sequence'>> # <<lastTime, sequence>>
          => \E t \in InTransition : mu = t
     /\ (ncalls' = ncalls + 1 /\ pc' = pc)
          => /\ InTransition = {}
             /\ call'.op = "Stats"
             /\ result'.LastGenerated = lastTime
             /\ result'.CurrentSequence = sequence]_vars

\* Stats has read the state left by a Generate call that wrapped the
\* sequence and waited for the next millisecond: that call wrote sequence,
\* and lastTime only after its wait
C22_Witness ==
  /\ call.op = "Stats"
  /\ issued # <<>>
  /\ issued[Len(issued)].waited
  /\ result.LastGenerated = issued[Len(issued)].now
  /\ result.CurrentSequence = 0

\* C23: the successful calls that commit the same millisecond receive
\* consecutive sequence values in commit order, each successful call takes
\* exactly one value (the one left in g.sequence), and a step that issues no
\* identifier and does not wrap the sequence, a failed call among them,
\* leaves (lastTime, sequence) as it was.
C23_SequenceConsecutive ==
  [][/\ \A i, j \in 1..Len(issued') :
          (i < j /\ issued'[i].now = issued'[j].now)
            => issued'[j].seq = issued'[i].seq + (j - i)
     /\ issued' # issued
          => /\ Len(issued') = Len(issued) + 1
             /\ sequence' = issued'[Len(issued')].seq
             /\ lastTime' = issued'[Len(issued')].now
     /\ (/\ issued' = issued
         /\ \A t \in Threads : pc'[t] = "wait" => pc[t] = "wait")
          => <<lastTime', sequence'>> = <<lastTime, sequence>>]_vars

\* two calls have committed the same millisecond and the call that returned
\* last failed because the clock moved backwards
C23_Witness ==
  /\ Len(issued) >= 2
  /\ issued[1].now = issued[2].now
  /\ ret.err = ErrClockBackwards

\* C24: after NewGenerator and before any Generate call the state is (the
\* clock reading taken at construction, sequence 0).
C24_InitializedFromClock ==
  (call.op = "NewGenerator" /\ ncalls = 0 /\ ret.err = Pending)
    => /\ lastTime = call.now
       /\ sequence = 0

\* the identifiers that are the first issued for their millisecond
FirstOfMillisecond(ids) ==
  {i \in 1..Len(ids) : \A j \in 1..(i - 1) : ids[j].now # ids[i].now}

\* a call reads the clock above lastTime and commits (now, 0), issuing an
\* identifier that carries sequence 0
CommitsZero(t) ==
  (pc[t] = "locked" /\ pc'[t] # "locked" /\ clock > lastTime)
    => /\ lastTime' = clock
       /\ sequence' = 0
       /\ Len(issued') = Len(issued) + 1
       /\ issued'[Len(issued')].now = clock
       /\ ParseSequence(issued'[Len(issued')].id) = 0

C26_RegressionNotSticky ==
  [][\A t \in Threads :
       (/\ ret.err = ErrClockBackwards
        /\ pc[t] \in {"locked", "wait"}
        /\ pc'[t] = "idle"
        /\ clock >= lastTime)
         => /\ ret'.err = NoErr
            /\ Len(issued') = Len(issued) + 1
            /\ issued'[Len(issued')].id = ret'.id
            /\ \A i \in Issued :
                 issued[i].entityType = arg[t]
                   => Less(issued[i].id, ret'.id)]_vars

\* e is registered and fits the entity-type field
EntityTypeValid(e) ==
  e \in config.EntityTypes /\ ~Less(maxEntityType, ToU64(e))

EntityErrors == {ErrNotConfigured, ErrExceedsMaximum}

\* C27: a Generate call for an entity type that is not registered or exceeds
\* the field's maximum never reaches the lock, where the clock is read, and
\* no identifier is issued for it; it returns (0, error), alone or as the
\* cause of a GenerateBatch error, and leaves lastTime, sequence, the lock
\* and the identifiers issued as they were.
C27_EntityErrorBeforeLock ==
  [][/\ \A t \in Threads :
          (pc'[t] = "lock" /\ pc[t] # "lock") => EntityTypeValid(arg'[t])
     /\ issued' # issued
          => EntityTypeValid(issued'[Len(issued')].entityType)
     /\ (ret' # ret /\ ret'.err \in EntityErrors)
          => /\ ret'.id = Zero
             /\ UNCHANGED <<lastTime, sequence, mu, pc, issued>>
     /\ (bret' # bret /\ bret'.cause \in EntityErrors)
          => /\ bret'.ids = <<>>
             /\ UNCHANGED <<lastTime, sequence, mu, pc, issued>>]_vars

\* Generate was refused for an unregistered entity type after an identifier
\* had been issued in the second call of a millisecond: the state is the one
\* that call left
C27_Witness ==
  /\ ret = Result(Zero, ErrNotConfigured)
  /\ issued # <<>>
  /\ sequence > 0
  /\ sequence = issued[Len(issued)].seq
  /\ lastTime = issued[Len(issued)].now

\* C28: no successful Generate call returns the identifier 0.
C28_NeverZero ==
  \A i \in Issued : issued[i].id # Zero

\* C29: for every timestamp T, at most 2^SequenceBits of the identifiers
\* issued by the instance carry T in their timestamp field, whatever their
\* entity types and callers.
C29_AtMostPerMillisecond ==
  \A i \in Issued :
    Cardinality({j \in Issued :
                   ParseTimestamp(issued[j].id) = ParseTimestamp(issued[i].id)})
      <= 2^config.BitLayout.SequenceBits

\* two entity types of c have the same prefix
SharePrefix(c) ==
  \E e1, e2 \in c.EntityTypes : e1 # e2 /\ c.Prefix[e1] = c.Prefix[e2]

\* C30: NewGenerator returns an error and no generator for every
\* configuration in which two entity types share a prefix; in a generator it
\* did build, each registered prefix belongs to exactly one entity type and
\* prefixToEntity maps the prefix of each registered entity type to that
\* entity type.
C30_PrefixesUnique ==
  /\ (call.op = "NewGenerator" /\ SharePrefix(call.config))
       => (result.err # NoErr /\ result.generator = None)
  /\ \A p \in Prefixes :
       Cardinality({e \in config.EntityTypes : config.Prefix[e] = p}) = 1
  /\ \A e \in config.EntityTypes : prefixToEntity(config.Prefix[e]) = e

\* NewGenerator has refused a configuration that is valid but for the prefix
\* its two entity types share
C30_Witness ==
  /\ call.op = "NewGenerator"
  /\ call.config.BitLayout = DefaultBitLayout
  /\ call.config.DatacenterID = 1
  /\ call.config.MachineID = 5
  /\ call.config.EntityTypes = {0, 1}
  /\ call.config.Prefix[0] = call.config.Prefix[1]
  /\ result.err # NoErr
  /\ result.generator = None

\* the reading now gives a timestamp the layout can hold:
\* 0 <= now - epoch <= 2^TimestampBits - 1
InRange(now) ==
  now >= config.Epoch /\ ~Less(maxTimestamp, ToU64(now - config.Epoch))

\* C31: when every clock reading committed satisfies
\* 0 <= now - epoch <= 2^TimestampBits - 1, the identifiers the instance
\* issued for one entity type are strictly increasing in commit order.
C31_SameEntityMonotonic ==
  (\A k \in Issued : InRange(issued[k].now))
    => \A i, j \in Issued :
         (i < j /\ issued[i].entityType = issued[j].entityType)
           => Less(issued[i].id, issued[j].id)

\* the pair committed by the last successful call, (0, 0) before the first
Committed(ids) ==
  IF ids = <<>> THEN <<0, 0>>
  ELSE <<ids[Len(ids)].now, ids[Len(ids)].seq>>

\* pair a is below pair b in lexicographic order
LexLess(a, b) == a[1] < b[1] \/ (a[1] = b[1] /\ a[2] < b[2])

\* C32: no step of a Generate call, successful or failed, decreases
\* lastTime, and every successful call commits a pair (lastTime, sequence)
\* that is above the pair committed before it in lexicographic order.
C32_StateIncreases ==
  [][/\ lastTime' >= lastTime
     /\ issued' # issued
          => /\ Committed(issued') = <<lastTime', sequence'>>
             /\ LexLess(Committed(issued), Committed(issued'))]_vars

\* three commits: the second in the millisecond of the first, the third in a
\* later one, by a call that wrapped the sequence and waited
C32_Witness ==
  /\ Len(issued) >= 3
  /\ issued[2].now = issued[1].now
  /\ issued[3].now > issued[2].now
  /\ issued[3].waited

\* the public id s begins with prefix p and the separator
CarriesPrefix(s, p) ==
  Len(s) > Len(p) /\ SubSeq(s, 1, Len(p) + 1) = p \o <<"_">>

\* C33: the public id GeneratePublic(k) returns for an identifier Generate
\* issued carries the prefix registered for k, Parse of the raw id gives
\* entity type k, and DecodePublic of the public id gives the raw id and the
\* entity type k: the kind of the prefix and the kind in the raw id agree.
C33_PublicKindAgrees ==
  [][issued' # issued
       => LET n == issued'[Len(issued')]
              pub == GeneratePublic(Result(n.id, NoErr), n.entityType)
          IN /\ pub.err = NoErr
             /\ CarriesPrefix(pub.str, config.Prefix[n.entityType])
             /\ Parse(n.id).EntityType = n.entityType
             /\ DecodePublic(pub.str)
                  = PublicResult(n.id, Parse(n.id).EntityType, NoErr)]_vars

\* C34: for the generator's whole lifetime the entity types its
\* configuration holds, which Generate and EncodePublic accept, and the
\* prefixes DecodePublic resolves are in one-to-one correspondence: the
\* prefix of each entity type resolves to it, and each prefix resolved is the
\* prefix of the entity type it resolves to.
C34_ConfigFixed ==
  /\ \A e \in config.EntityTypes :
       /\ config.Prefix[e] \in Prefixes
       /\ prefixToEntity(config.Prefix[e]) = e
  /\ \A p \in Prefixes :
       /\ prefixToEntity(p) \in config.EntityTypes
       /\ config.Prefix[prefixToEntity(p)] = p

TypeOK ==
  /\ config \in Configs
  /\ sequence \in 0..(2^Uint16Bits - 1)
  /\ lastTime \in 0..MaxTime
  /\ mu \in Threads \cup {None}
  /\ clock \in 0..MaxTime
  /\ pc \in [Threads -> {"idle", "lock", "locked", "wait"}]
  /\ ncalls \in 0..MaxCalls
====
